---- MODULE Spec2Model ----
(***************************************************************************)
(* State-machine model of snapshot.cmd.by.VTSTech.py: the asyncio engine   *)
(* that supervises a Minecraft server process, classifies its stdout       *)
(* lines, drives the pending-home / pending-warp / tpa-request trackers    *)
(* and writes commands back to the server's stdin.                         *)
(*                                                                         *)
(* Conventions.                                                            *)
(*  - A Python str that is later split on whitespace is modelled by the    *)
(*    sequence of its words ("0 64 -3" is <<"0", "64", "-3">>).            *)
(*  - A Python dict is modelled by the sequence of its <<key, value>>      *)
(*    pairs in insertion order.                                            *)
(*  - A stdout line is a sequence of tokens (see the token constructors).  *)
(*  - asyncio tasks switch only at an await that can suspend: readline,    *)
(*    sleep, drain (after every write to stdin), process.wait and the      *)
(*    never-resolved Future of main.  One action is the code that runs     *)
(*    from one such await to the next.                                     *)
(***************************************************************************)
EXTENDS Integers, Sequences, FiniteSets, TLC

\* ---------------------------------------------------------------- bounds
\* number of stdout lines the server emits in one run
MaxLines == 4
\* the clock stops advancing at this time
MaxTime == 40
\* granularity of the clock
TimeStep == 10
\* number of stderr lines the server emits in one run
MaxErrLines == 1

\* ------------------------------------------------------------ CONFIG
SPAWN_POINT == <<"0", "64", "-3">>
TPA_TIMEOUT == 30
SWEEP_SLEEP == 10

\* ------------------------------------------------------------ dict helpers
RECURSIVE DictIndex(_, _, _)
\* index of key k in dict d at or after position i, 0 when absent
DictIndex(d, k, i) ==
    IF i > Len(d) THEN 0
    ELSE IF d[i][1] = k THEN i
    ELSE DictIndex(d, k, i + 1)

\* k in d
DictHas(d, k) == DictIndex(d, k, 1) # 0

\* d[k]
DictGet(d, k) == d[DictIndex(d, k, 1)][2]

\* d[k] = v : an existing key keeps its place, a new key goes last
DictSet(d, k, v) ==
    IF DictHas(d, k)
    THEN [d EXCEPT ![DictIndex(d, k, 1)] = <<k, v>>]
    ELSE Append(d, <<k, v>>)

\* d.pop(k) for a key that is present
DictPop(d, k) ==
    LET i == DictIndex(d, k, 1)
    IN  SubSeq(d, 1, i - 1) \o SubSeq(d, i + 1, Len(d))

\* d.keys() as a set
DictKeys(d) == {d[i][1] : i \in 1..Len(d)}

\* ------------------------------------------------------------ stdout lines
\* a token of a stdout line; every token has the same fields
Tok(k, v, x, y, z) == [k |-> k, v |-> v, x |-> x, y |-> y, z |-> z]
\* a plain word
Word(s) == Tok("word", s, "", "", "")
\* the chat prefix "<player>"
From(p) == Tok("chat", p, "", "", "")
\* a dotted word ".command"
Dot(c) == Tok("dot", c, "", "", "")
\* the text "has the following entity data: [xd, yd, zd]"
EntityData(x, y, z) == Tok("data", "", x, y, z)

\* the whitespace-separated words of the text of one token (the brackets of
\* "<player>" and the dot of ".command" are not kept: only the number of
\* arguments and the text of plain words are ever used)
TokWords(t) ==
    IF t.k = "data"
    THEN <<"has", "the", "following", "entity", "data:", "[xd,", "yd,", "zd]">>
    ELSE <<t.v>>

RECURSIVE SplitWords(_)
\* str.split() of the text of a token sequence
SplitWords(toks) ==
    IF toks = <<>> THEN <<>>
    ELSE TokWords(Head(toks)) \o SplitWords(Tail(toks))

RECURSIVE ChatIndex(_, _)
\* re.search(r'<([^>]+)> \.(\w+)(?:\s+(.*))?', line): leftmost "<p> .cmd"
ChatIndex(line, i) ==
    IF i + 1 > Len(line) THEN 0
    ELSE IF line[i].k = "chat" /\ line[i + 1].k = "dot" THEN i
    ELSE ChatIndex(line, i + 1)

RECURSIVE DataIndex(_, _)
\* re.search(r'(\w+) has the following entity data: \[..d, ..d, ..d\]', line)
DataIndex(line, i) ==
    IF i + 1 > Len(line) THEN 0
    ELSE IF line[i].k \in {"word", "dot"} /\ line[i + 1].k = "data" THEN i
    ELSE DataIndex(line, i + 1)

\* ------------------------------------------------------------ record files
\* a csv row of four columns: the key and three coordinate fields
Row(key, x, y, z) == [n |-> 4, key |-> key, x |-> x, y |-> y, z |-> z]
\* a file that does not exist
NoFile == [st |-> "absent", rows |-> <<>>]
\* a file that exists but cannot be opened (open() raises)
BadFile == [st |-> "bad", rows |-> <<>>]
\* a readable and writable file holding rows
File(rows) == [st |-> "ok", rows |-> rows]
\* a file that can be read but not written (open(..., 'w') raises)
ReadOnlyFile(rows) == [st |-> "readonly", rows |-> rows]
\* open(file, 'r') succeeds
Readable(file) == file.st \in {"ok", "readonly"}
\* open(file, 'w') succeeds (it creates a file that does not exist)
Writable(file) == file.st \in {"ok", "absent"}

\* str.lower() on the warp names of the model
Lower(s) ==
    CASE s = "Town" -> "town"
      [] s = "TOWN" -> "town"
      [] s = "Spawn" -> "spawn"
      [] OTHER -> s

\* f"{x} {y} {z}" : a string as the sequence of its words
Fmt3(x, y, z) == x \o y \o z

RECURSIVE SaveRows(_, _, _)
\* the rows a save loop writes before it ends or pos.split() fails to unpack
SaveRows(d, i, skipSpawn) ==
    IF i > Len(d) THEN <<>>
    ELSE LET name == d[i][1]
             pos == d[i][2]
         IN  IF skipSpawn /\ name = "spawn" /\ pos = SPAWN_POINT
             THEN SaveRows(d, i + 1, skipSpawn)
             ELSE IF Len(pos) # 3 THEN <<>>
             ELSE <<Row(name, <<pos[1]>>, <<pos[2]>>, <<pos[3]>>)>>
                      \o SaveRows(d, i + 1, skipSpawn)

RECURSIVE SaveFails(_, _, _)
\* TRUE when the save loop raises ValueError on some record
SaveFails(d, i, skipSpawn) ==
    IF i > Len(d) THEN FALSE
    ELSE LET name == d[i][1]
             pos == d[i][2]
         IN  IF skipSpawn /\ name = "spawn" /\ pos = SPAWN_POINT
             THEN SaveFails(d, i + 1, skipSpawn)
             ELSE Len(pos) # 3 \/ SaveFails(d, i + 1, skipSpawn)

\* the homes file after save_homes()
save_homes(file, homes) ==
    IF ~Writable(file) THEN file ELSE File(SaveRows(homes, 1, FALSE))

\* save_warps that leaves out every "spawn" record, default or not
save_warps_skips_spawn(file, warps) ==
    IF ~Writable(file) THEN file
    ELSE File(SaveRows(SelectSeq(warps, LAMBDA e : e[1] # "spawn"), 1, TRUE))

\* the warps file after save_warps()
save_warps(file, warps) ==
    IF ~Writable(file) THEN file ELSE File(SaveRows(warps, 1, TRUE))

RECURSIVE LoadRows(_, _, _, _)
\* the dict after the load loop has read rows i.. of the file into d
LoadRows(d, rows, i, lower) ==
    IF i > Len(rows) THEN d
    ELSE LET r == rows[i]
             key == IF lower THEN Lower(r.key) ELSE r.key
         IN  IF r.n = 4
             THEN LoadRows(DictSet(d, key, Fmt3(r.x, r.y, r.z)), rows, i + 1, lower)
             ELSE LoadRows(d, rows, i + 1, lower)

\* self.homes after load_homes() has run on the dict d
homes_after_load(d, file) ==
    IF Readable(file) THEN LoadRows(d, file.rows, 1, FALSE) ELSE d

\* self.warps after load_warps() has run on the dict d: the default spawn is
\* added only when the try block reaches it
warps_after_load(d, file) ==
    IF file.st = "bad" THEN d
    ELSE LET w == IF Readable(file) THEN LoadRows(d, file.rows, 1, TRUE) ELSE d
         IN  IF DictHas(w, "spawn") THEN w ELSE DictSet(w, "spawn", SPAWN_POINT)

\* a log record
LogRec(lvl, text) == [lvl |-> lvl, text |-> text]

\* ------------------------------------------------------------ instructions
\* One instruction of the code that remains to run for the current line.
\* "write" is execute(command): a write to stdin followed by drain.
Op(op, a) == [op |-> op, a |-> a]
\* MinecraftServer.execute(command)
execute(cmd) == Op("write", cmd)
\* CommandHandler.send_message(player, message)
send_message(player, message) == execute(<<"tellraw", player>> \o message)

\* an exception raised before the handler has awaited anything
Raise(text) == <<Op("raise", <<text>>)>>

\* ------------------------------------------------------------ command handlers
\* Each handler gives the instructions it runs, decided on the state s at the
\* time of the call (no handler awaits before its checks).

\* cmd_tpa without the test target == player
cmd_tpa_allows_self(s, player, args) ==
    IF args = <<>> THEN <<send_message(player, <<"Usage: .tpa <player>">>)>>
    ELSE LET target == args[1]
         IN  IF DictHas(s.tpa_requests, target)
                /\ DictGet(s.tpa_requests, target)[1] = player
             THEN <<send_message(player, <<"You already have a pending request to", target>>)>>
             ELSE <<Op("tpa_store", <<target, player>>),
                    send_message(player, <<"Teleport request sent to", target>>),
                    send_message(target, <<player, "has requested to teleport to you">>)>>

\* cmd_tpa that rejects a request whenever the target has one pending
cmd_tpa_no_replace(s, player, args) ==
    IF args = <<>> THEN <<send_message(player, <<"Usage: .tpa <player>">>)>>
    ELSE LET target == args[1]
         IN  IF target = player
             THEN <<send_message(player, <<"You cannot teleport to yourself!">>)>>
             ELSE IF DictHas(s.tpa_requests, target)
             THEN <<send_message(player, <<"You already have a pending request to", target>>)>>
             ELSE <<Op("tpa_store", <<target, player>>),
                    send_message(player, <<"Teleport request sent to", target>>),
                    send_message(target, <<player, "has requested to teleport to you">>)>>

\* cmd_tpa(player, *args)
cmd_tpa(s, player, args) ==
    IF args = <<>> THEN <<send_message(player, <<"Usage: .tpa <player>">>)>>
    ELSE LET target == args[1]
         IN  IF target = player
             THEN <<send_message(player, <<"You cannot teleport to yourself!">>)>>
             ELSE IF DictHas(s.tpa_requests, target)
                     /\ DictGet(s.tpa_requests, target)[1] = player
             THEN <<send_message(player, <<"You already have a pending request to", target>>)>>
             ELSE <<Op("tpa_store", <<target, player>>),
                    send_message(player, <<"Teleport request sent to", target>>),
                    send_message(target, <<player, "has requested to teleport to you">>)>>

\* cmd_tpaccept that reads the entry without removing it
cmd_tpaccept_keeps_entry(s, player) ==
    IF ~DictHas(s.tpa_requests, player)
    THEN <<send_message(player, <<"No pending teleport requests!">>)>>
    ELSE LET requester == DictGet(s.tpa_requests, player)[1]
         IN  <<execute(<<"tp", requester, player>>),
               send_message(player, <<"Accepted teleport request of", requester>>),
               send_message(requester, <<player, "has accepted your teleport request!">>)>>

\* cmd_tpaccept(player)
cmd_tpaccept(s, player) ==
    IF ~DictHas(s.tpa_requests, player)
    THEN <<send_message(player, <<"No pending teleport requests!">>)>>
    ELSE LET requester == DictGet(s.tpa_requests, player)[1]
         IN  <<Op("tpa_pop", <<player>>),
               execute(<<"tp", requester, player>>),
               send_message(player, <<"Accepted teleport request of", requester>>),
               send_message(requester, <<player, "has accepted your teleport request!">>)>>

\* cmd_tpdeny(player)
cmd_tpdeny(s, player) ==
    IF ~DictHas(s.tpa_requests, player)
    THEN <<send_message(player, <<"No pending teleport requests!">>)>>
    ELSE LET requester == DictGet(s.tpa_requests, player)[1]
         IN  <<Op("tpa_pop", <<player>>),
               send_message(player, <<"Denied teleport request of", requester>>),
               send_message(requester, <<player, "denied your teleport request!">>)>>

\* cmd_sethome(player)
cmd_sethome(s, player) ==
    <<execute(<<"data get entity", player, "Pos">>),
      Op("pending_homes_add", <<player>>),
      send_message(player, <<"Scanning your position...">>)>>

\* cmd_home(player)
cmd_home(s, player) ==
    IF DictHas(s.homes, player)
    THEN <<execute(<<"tp", player>> \o DictGet(s.homes, player)),
           send_message(player, <<"Teleported to home!">>)>>
    ELSE <<send_message(player, <<"Home not set! Use .sethome">>)>>

\* cmd_setwarp that stores the name as it was typed
cmd_setwarp_keeps_case(s, player, args) ==
    IF args = <<>> THEN <<send_message(player, <<"Usage: .setwarp <name>">>)>>
    ELSE LET warp_name == args[1]
         IN  <<execute(<<"data get entity", player, "Pos">>),
               Op("pending_warps_set", <<player, warp_name>>),
               send_message(player, <<"Scanning position for warp", warp_name>>)>>

\* cmd_setwarp that keeps the name of a request that is already pending
cmd_setwarp_first_wins(s, player, args) ==
    IF args = <<>> THEN <<send_message(player, <<"Usage: .setwarp <name>">>)>>
    ELSE LET warp_name == Lower(args[1])
         IN  <<execute(<<"data get entity", player, "Pos">>)>>
             \o (IF DictHas(s.pending_warps, player) THEN <<>>
                 ELSE <<Op("pending_warps_set", <<player, warp_name>>)>>)
             \o <<send_message(player, <<"Scanning position for warp", warp_name>>)>>

\* cmd_setwarp that files the pending entry under the warp name
cmd_setwarp_wrong_key(s, player, args) ==
    IF args = <<>> THEN <<send_message(player, <<"Usage: .setwarp <name>">>)>>
    ELSE LET warp_name == Lower(args[1])
         IN  <<execute(<<"data get entity", player, "Pos">>),
               Op("pending_warps_set", <<warp_name, player>>),
               send_message(player, <<"Scanning position for warp", warp_name>>)>>

\* cmd_setwarp(player, *args)
cmd_setwarp(s, player, args) ==
    IF args = <<>> THEN <<send_message(player, <<"Usage: .setwarp <name>">>)>>
    ELSE LET warp_name == Lower(args[1])
         IN  <<execute(<<"data get entity", player, "Pos">>),
               Op("pending_warps_set", <<player, warp_name>>),
               send_message(player, <<"Scanning position for warp", warp_name>>)>>

\* cmd_warp(player, *args)
cmd_warp(s, player, args) ==
    IF args = <<>> THEN <<send_message(player, <<"Usage: .warp <name>">>)>>
    ELSE LET warp_name == Lower(args[1])
         IN  IF DictHas(s.warps, warp_name)
             THEN <<execute(<<"tp", player>> \o DictGet(s.warps, warp_name)),
                    send_message(player, <<"Teleported to warp", warp_name>>)>>
             ELSE <<send_message(player, <<"Warp not found!", warp_name>>)>>

\* cmd_warps(player)
cmd_warps(s, player) ==
    <<send_message(player, <<"Available warps:">> \o [i \in 1..Len(s.warps) |-> s.warps[i][1]])>>

\* cmd_spawn(player): self.warps['spawn'] raises KeyError when the key is absent
cmd_spawn(s, player) ==
    IF ~DictHas(s.warps, "spawn") THEN Raise("KeyError: 'spawn'")
    ELSE <<execute(<<"tp", player>> \o DictGet(s.warps, "spawn")),
           send_message(player, <<"Teleported to spawn!">>)>>

\* cmd_rtp(player) with the two random.randint draws x and z
cmd_rtp(s, player, x, z) ==
    <<execute(<<"spreadplayers", ToString(x), ToString(z), "0", "100", "false", player>>),
      send_message(player, <<"Random teleported!", ToString(x), ToString(z)>>)>>

\* cmd_help(player)
cmd_help(s, player) ==
    <<execute(<<"tell", player, "=== Server Commands ===">>)>>

\* the names n for which getattr(self, "cmd_" + n) finds a handler
Handlers ==
    {"tpa", "tpaccept", "tpdeny", "sethome", "home", "setwarp", "warp",
     "warps", "spawn", "rtp", "help"}

\* the handlers declared with *args accept any number of arguments
Variadic == {"tpa", "setwarp", "warp"}

\* await handler(player, *args): the instructions of the handler, or the
\* exception it raises at once
call_handler(s, player, command, args, x, z) ==
    IF command \notin Variadic /\ args # <<>>
    THEN Raise("TypeError: takes 2 positional arguments")
    ELSE CASE command = "tpa" -> cmd_tpa(s, player, args)
           [] command = "tpaccept" -> cmd_tpaccept(s, player)
           [] command = "tpdeny" -> cmd_tpdeny(s, player)
           [] command = "sethome" -> cmd_sethome(s, player)
           [] command = "home" -> cmd_home(s, player)
           [] command = "setwarp" -> cmd_setwarp(s, player, args)
           [] command = "warp" -> cmd_warp(s, player, args)
           [] command = "warps" -> cmd_warps(s, player)
           [] command = "spawn" -> cmd_spawn(s, player)
           [] command = "rtp" -> cmd_rtp(s, player, x, z)
           [] OTHER -> cmd_help(s, player)

\* handle_command without the try/except around the handler call
handle_command_no_try(s, player, command, args, x, z) ==
    IF command \in Handlers
    THEN call_handler(s, player, command, args, x, z)
    ELSE <<send_message(player, <<"Unknown command:", command>>)>>

\* CommandHandler.handle_command(player, command, args)
handle_command(s, player, command, args, x, z) ==
    IF command \in Handlers
    THEN LET ops == call_handler(s, player, command, args, x, z)
         IN  IF ops # <<>> /\ ops[1].op = "raise"
             THEN <<send_message(player, <<"Error:">> \o ops[1].a),
                    Op("log_error", <<"Command error">>)>>
             ELSE ops
    ELSE <<send_message(player, <<"Unknown command:", command>>)>>

\* ------------------------------------------------------------ state
VARIABLES
    homes,          \* CommandHandler.homes : player -> position
    warps,          \* CommandHandler.warps : warp name -> position
    pending_homes,  \* CommandHandler.pending_homes : set of players
    pending_warps,  \* CommandHandler.pending_warps : player -> warp name
    tpa_requests,   \* CommandHandler.tpa_requests : target -> <<requester, timestamp>>
    homes_file,     \* homes.csv
    warps_file,     \* warps.csv
    stdin,          \* the commands written to the server's stdin, in order
    log,            \* the records emitted through logger
    now,            \* time.time()
    proc,           \* the server process: "none", "running", "exited"
    pcMain,         \* where main() and the start-up tasks stand
    pcOut,          \* the handle_output task
    line,           \* the stdout line handle_output is handling
    todo,           \* the instructions left to run for that line
    pcErr,          \* the monitor_stderr task
    pcSweep,        \* the check_tpa_timeouts task
    wakeAt,         \* when its sleep(10) ends
    expired,        \* its list of expired targets not yet popped
    notice          \* <<requester, target>> of the entry it has just popped

vars == <<homes, warps, pending_homes, pending_warps, tpa_requests, homes_file,
          warps_file, stdin, log, now, proc, pcMain, pcOut, line, todo, pcErr,
          pcSweep, wakeAt, expired, notice>>

\* the CommandHandler fields, the files and the two output streams as a record
Store ==
    [homes |-> homes, warps |-> warps, pending_homes |-> pending_homes,
     pending_warps |-> pending_warps, tpa_requests |-> tpa_requests,
     homes_file |-> homes_file, warps_file |-> warps_file,
     stdin |-> stdin, log |-> log]

\* the primed variables take the fields of the record s
Commit(s) ==
    /\ homes' = s.homes
    /\ warps' = s.warps
    /\ pending_homes' = s.pending_homes
    /\ pending_warps' = s.pending_warps
    /\ tpa_requests' = s.tpa_requests
    /\ homes_file' = s.homes_file
    /\ warps_file' = s.warps_file
    /\ stdin' = s.stdin
    /\ log' = s.log

\* the position-response branch with two independent tests: a response
\* resolves the home track and the warp track of the player together
position_response_both_tracks(s, ln) ==
    LET i == DataIndex(ln, 1)
        player == ln[i].v
        x == ln[i + 1].x
        y == ln[i + 1].y
        z == ln[i + 1].z
        pos == Fmt3(<<x>>, <<y>>, <<z>>)
        inHome == i # 0 /\ player \in s.pending_homes
        inWarp == i # 0 /\ DictHas(s.pending_warps, player)
        h == IF inHome THEN DictSet(s.homes, player, pos) ELSE s.homes
        warp_name == DictGet(s.pending_warps, player)
        w == IF inWarp THEN DictSet(s.warps, warp_name, pos) ELSE s.warps
    IN  [s |-> [s EXCEPT !.homes = h,
                         !.pending_homes = IF inHome THEN @ \ {player} ELSE @,
                         !.homes_file = IF inHome THEN save_homes(@, h) ELSE @,
                         !.warps = w,
                         !.pending_warps = IF inWarp THEN DictPop(@, player) ELSE @,
                         !.warps_file = IF inWarp THEN save_warps(@, w) ELSE @],
         ops |-> (IF inHome THEN <<send_message(player, <<"Home set at", x, y, z>>)>> ELSE <<>>)
                 \o (IF inWarp
                     THEN <<send_message(player, <<"Warp set at", warp_name, x, y, z>>)>>
                     ELSE <<>>)]

\* the position-response branch with save_homes / save_warps that let the
\* exception of a failed save through
position_response_save_raises(s, ln) ==
    LET i == DataIndex(ln, 1)
        player == ln[i].v
        x == ln[i + 1].x
        y == ln[i + 1].y
        z == ln[i + 1].z
        pos == Fmt3(<<x>>, <<y>>, <<z>>)
    IN  IF i = 0 THEN [s |-> s, ops |-> <<>>]
        ELSE IF player \in s.pending_homes
        THEN LET h == DictSet(s.homes, player, pos)
                 bad == ~Writable(s.homes_file) \/ SaveFails(h, 1, FALSE)
             IN  [s |-> [s EXCEPT !.homes = h,
                                  !.pending_homes = @ \ {player},
                                  !.homes_file = save_homes(@, h)],
                  ops |-> IF bad THEN Raise("OSError")
                          ELSE <<send_message(player, <<"Home set at", x, y, z>>)>>]
        ELSE IF DictHas(s.pending_warps, player)
        THEN LET warp_name == DictGet(s.pending_warps, player)
                 w == DictSet(s.warps, warp_name, pos)
                 bad == ~Writable(s.warps_file) \/ SaveFails(w, 1, TRUE)
             IN  [s |-> [s EXCEPT !.warps = w,
                                  !.pending_warps = DictPop(@, player),
                                  !.warps_file = save_warps(@, w)],
                  ops |-> IF bad THEN Raise("OSError")
                          ELSE <<send_message(player, <<"Warp set at", warp_name, x, y, z>>)>>]
        ELSE [s |-> s, ops |-> <<>>]

\* the position-response branch without pending_homes.remove(player)
position_response_keeps_pending(s, ln) ==
    LET i == DataIndex(ln, 1)
        player == ln[i].v
        x == ln[i + 1].x
        y == ln[i + 1].y
        z == ln[i + 1].z
        pos == Fmt3(<<x>>, <<y>>, <<z>>)
    IN  IF i = 0 THEN [s |-> s, ops |-> <<>>]
        ELSE IF player \in s.pending_homes
        THEN LET h == DictSet(s.homes, player, pos)
             IN  [s |-> [s EXCEPT !.homes = h, !.homes_file = save_homes(@, h)],
                  ops |-> <<send_message(player, <<"Home set at", x, y, z>>)>>]
        ELSE IF DictHas(s.pending_warps, player)
        THEN LET warp_name == DictGet(s.pending_warps, player)
                 w == DictSet(s.warps, warp_name, pos)
             IN  [s |-> [s EXCEPT !.warps = w,
                                  !.pending_warps = DictPop(@, player),
                                  !.warps_file = save_warps(@, w)],
                  ops |-> <<send_message(player, <<"Warp set at", warp_name, x, y, z>>)>>]
        ELSE [s |-> s, ops |-> <<>>]

\* the position-response branch of handle_output (the second `if`), run on
\* the record s for the line ln: the record afterwards and the message to send
position_response(s, ln) ==
    LET i == DataIndex(ln, 1)
        player == ln[i].v
        x == ln[i + 1].x
        y == ln[i + 1].y
        z == ln[i + 1].z
        pos == Fmt3(<<x>>, <<y>>, <<z>>)
    IN  IF i = 0 THEN [s |-> s, ops |-> <<>>]
        ELSE IF player \in s.pending_homes
        THEN LET h == DictSet(s.homes, player, pos)
                 bad == ~Writable(s.homes_file) \/ SaveFails(h, 1, FALSE)
             IN  [s |-> [s EXCEPT !.homes = h,
                                  !.pending_homes = @ \ {player},
                                  !.homes_file = save_homes(@, h),
                                  !.log = IF bad
                                          THEN Append(@, LogRec("ERROR", <<Word("Error saving homes")>>))
                                          ELSE @],
                  ops |-> <<send_message(player, <<"Home set at", x, y, z>>)>>]
        ELSE IF DictHas(s.pending_warps, player)
        THEN LET warp_name == DictGet(s.pending_warps, player)
                 w == DictSet(s.warps, warp_name, pos)
                 bad == ~Writable(s.warps_file) \/ SaveFails(w, 1, TRUE)
             IN  [s |-> [s EXCEPT !.warps = w,
                                  !.pending_warps = DictPop(@, player),
                                  !.warps_file = save_warps(@, w),
                                  !.log = IF bad
                                          THEN Append(@, LogRec("ERROR", <<Word("Error saving warps")>>))
                                          ELSE @],
                  ops |-> <<send_message(player, <<"Warp set at", warp_name, x, y, z>>)>>]
        ELSE [s |-> s, ops |-> <<>>]

RECURSIVE run(_, _, _, _, _)
\* Run the instructions ops on the record s up to and including the next
\* write to stdin (the task suspends in drain).  t is time.time(); broken is
\* TRUE when the pipe to the server is lost and the write raises.  An
\* exception that reaches handle_output ends the task (failed).
run(s, ops, ln, t, broken) ==
    IF ops = <<>> THEN [s |-> s, ops |-> <<>>, failed |-> FALSE]
    ELSE LET o == Head(ops)
             rest == Tail(ops)
         IN  CASE o.op = "write" ->
                    IF broken THEN [s |-> s, ops |-> <<>>, failed |-> TRUE]
                    ELSE [s |-> [s EXCEPT !.stdin = Append(@, o.a)],
                          ops |-> rest, failed |-> FALSE]
               [] o.op = "tpa_store" ->
                    run([s EXCEPT !.tpa_requests = DictSet(@, o.a[1], <<o.a[2], t>>)],
                        rest, ln, t, broken)
               [] o.op = "tpa_pop" ->
                    run([s EXCEPT !.tpa_requests = DictPop(@, o.a[1])], rest, ln, t, broken)
               [] o.op = "pending_homes_add" ->
                    run([s EXCEPT !.pending_homes = @ \cup {o.a[1]}], rest, ln, t, broken)
               [] o.op = "pending_warps_set" ->
                    run([s EXCEPT !.pending_warps = DictSet(@, o.a[1], o.a[2])],
                        rest, ln, t, broken)
               [] o.op = "raise" ->
                    [s |-> s, ops |-> <<>>, failed |-> TRUE]
               [] o.op = "log_error" ->
                    run([s EXCEPT !.log = Append(@, LogRec("ERROR", <<Word(o.a[1])>>))],
                        rest, ln, t, broken)
               [] o.op = "position" ->
                    LET r == position_response(s, ln)
                    IN  run(r.s, r.ops \o rest, ln, t, broken)

\* the instructions handle_output runs for one non-empty line: the command
\* branch when the first pattern matches, then the position-response branch
handle_output(s, ln, x, z) ==
    LET i == ChatIndex(ln, 1)
    IN  (IF i = 0 THEN <<>>
         ELSE handle_command(s, ln[i].v, ln[i + 1].v,
                             SplitWords(SubSeq(ln, i + 2, Len(ln))), x, z))
        \o <<Op("position", <<>>)>>

\* ------------------------------------------------------------ start-up
\* the state after MinecraftServer() is constructed inside main(): empty
\* dicts, the three tasks of CommandHandler.__init__ created but not yet run
InitWith(HomesFiles, WarpsFiles) ==
    /\ homes = <<>>
    /\ warps = <<>>
    /\ pending_homes = {}
    /\ pending_warps = <<>>
    /\ tpa_requests = <<>>
    /\ homes_file \in HomesFiles
    /\ warps_file \in WarpsFiles
    /\ stdin = <<>>
    /\ log = <<>>
    /\ now = 0
    /\ proc = "none"
    /\ pcMain = "load_homes"
    /\ pcOut = "new"
    /\ line = <<>>
    /\ todo = <<>>
    /\ pcErr = "new"
    /\ pcSweep = "new"
    /\ wakeAt = 0
    /\ expired = <<>>
    /\ notice = <<>>

\* load_homes(): the first task to run once main() awaits in start() (the
\* informational "Loaded n homes" record is not kept in log)
load_homes ==
    /\ pcMain = "load_homes"
    /\ pcMain' = "load_warps"
    /\ homes' = homes_after_load(homes, homes_file)
    /\ log' = IF homes_file.st = "bad"
              THEN Append(log, LogRec("ERROR", <<Word("Error loading homes")>>))
              ELSE log
    /\ UNCHANGED <<warps, pending_homes, pending_warps, tpa_requests, homes_file,
                   warps_file, stdin, now, proc, pcOut, line, todo, pcErr,
                   pcSweep, wakeAt, expired, notice>>

\* load_warps(): the second task; the default spawn is added only when the
\* try block reaches it
load_warps ==
    /\ pcMain = "load_warps"
    /\ pcMain' = "sweep"
    /\ warps' = warps_after_load(warps, warps_file)
    /\ log' = IF warps_file.st = "bad"
              THEN Append(log, LogRec("ERROR", <<Word("Error loading warps")>>))
              ELSE log
    /\ UNCHANGED <<homes, pending_homes, pending_warps, tpa_requests, homes_file,
                   warps_file, stdin, now, proc, pcOut, line, todo, pcErr,
                   pcSweep, wakeAt, expired, notice>>

\* check_tpa_timeouts() runs for the first time and enters sleep(10)
check_tpa_timeouts_begin ==
    /\ pcMain = "sweep"
    /\ pcMain' = "start"
    /\ pcSweep' = "sleep"
    /\ wakeAt' = now + SWEEP_SLEEP
    /\ UNCHANGED <<homes, warps, pending_homes, pending_warps, tpa_requests,
                   homes_file, warps_file, stdin, log, now, proc, pcOut, line,
                   todo, pcErr, expired, notice>>

\* MinecraftServer.start(): the process is created, the two reading tasks
\* are created, and main() goes on to await asyncio.Future()
start ==
    /\ pcMain = "start"
    /\ pcMain' = "wait"
    /\ proc' = "running"
    /\ pcOut' = "read"
    /\ pcErr' = "read"
    /\ UNCHANGED <<homes, warps, pending_homes, pending_warps, tpa_requests,
                   homes_file, warps_file, stdin, log, now, line, todo,
                   pcSweep, wakeAt, expired, notice>>

\* ------------------------------------------------------------ the clock
Tick ==
    /\ now + TimeStep <= MaxTime
    /\ now' = now + TimeStep
    /\ UNCHANGED <<homes, warps, pending_homes, pending_warps, tpa_requests,
                   homes_file, warps_file, stdin, log, proc, pcMain, pcOut,
                   line, todo, pcErr, pcSweep, wakeAt, expired, notice>>

\* ------------------------------------------------------------ handle_output
RTP_RADIUS == 35000

\* a randint that reaches one past each end
randint_past_ends(a, b) == {a - 1, (a + b) \div 2, b + 1}

\* the values random.randint(a, b) is taken to return: its two inclusive
\* ends and the middle of the range
randint(a, b) == {a, (a + b) \div 2, b}

\* random.randint(-radius, radius)
RandInts == randint(-RTP_RADIUS, RTP_RADIUS)

\* the stdout lines logged so far
LinesRead == Cardinality({i \in 1..Len(log) : log[i].lvl = "INFO"})

\* TRUE/FALSE choices for "the write raises": only a lost pipe raises
Broken == IF proc = "exited" THEN BOOLEAN ELSE {FALSE}

\* the draws a line needs: only .rtp draws
Draws(ln) ==
    LET i == ChatIndex(ln, 1)
    IN  IF i # 0 /\ ln[i + 1].v = "rtp" THEN RandInts ELSE {0}

\* a reading loop that does not wait for the handler of the line before:
\* the next line is read while instructions of the last one are left
handle_output_line_no_wait(Lines) ==
    /\ pcOut = "read"
    /\ proc = "running"
    /\ LinesRead < MaxLines
    /\ \E ln \in Lines, x \in RandInts, z \in RandInts :
         /\ x \in Draws(ln)
         /\ z \in Draws(ln)
         /\ line' = ln
         /\ IF ln = <<>>
            THEN UNCHANGED <<homes, warps, pending_homes, pending_warps,
                             tpa_requests, homes_file, warps_file, stdin, log,
                             todo, pcOut>>
            ELSE LET s0 == [Store EXCEPT !.log = Append(@, LogRec("INFO", ln))]
                     r == run(s0, handle_output(s0, ln, x, z), ln, now, FALSE)
                 IN  /\ Commit(r.s)
                     /\ todo' = r.ops \o todo
                     /\ pcOut' = IF r.failed THEN "failed" ELSE "read"
    /\ UNCHANGED <<now, proc, pcMain, pcErr, pcSweep, wakeAt, expired, notice>>

\* readline() returns the line ln.  An empty line is skipped (`continue`);
\* any other line is logged and handled up to the first drain, or to the end
\* when nothing is written
handle_output_line(Lines) ==
    /\ pcOut = "read"
    /\ todo = <<>>
    /\ proc = "running"
    /\ LinesRead < MaxLines
    /\ \E ln \in Lines, x \in RandInts, z \in RandInts :
         /\ x \in Draws(ln)
         /\ z \in Draws(ln)
         /\ line' = ln
         /\ IF ln = <<>>
            THEN UNCHANGED <<homes, warps, pending_homes, pending_warps,
                             tpa_requests, homes_file, warps_file, stdin, log,
                             todo, pcOut>>
            ELSE LET s0 == [Store EXCEPT !.log = Append(@, LogRec("INFO", ln))]
                     r == run(s0, handle_output(s0, ln, x, z), ln, now, FALSE)
                 IN  /\ Commit(r.s)
                     /\ todo' = r.ops
                     /\ pcOut' = IF r.failed THEN "failed" ELSE "read"
    /\ UNCHANGED <<now, proc, pcMain, pcErr, pcSweep, wakeAt, expired, notice>>

\* the task resumes from drain and runs to the next drain or to readline
handle_output_resume ==
    /\ pcOut = "read"
    /\ todo # <<>>
    /\ \E broken \in Broken :
         LET r == run(Store, todo, line, now, broken)
         IN  /\ Commit(r.s)
             /\ todo' = r.ops
             /\ pcOut' = IF r.failed THEN "failed" ELSE "read"
    /\ UNCHANGED <<now, proc, pcMain, line, pcErr, pcSweep, wakeAt, expired, notice>>

\* stdout is at end-of-file: the while loop ends
handle_output_eof ==
    /\ pcOut = "read"
    /\ todo = <<>>
    /\ proc = "exited"
    /\ pcOut' = "ended"
    /\ UNCHANGED <<homes, warps, pending_homes, pending_warps, tpa_requests,
                   homes_file, warps_file, stdin, log, now, proc, pcMain, line,
                   todo, pcErr, pcSweep, wakeAt, expired, notice>>

\* ------------------------------------------------------------ monitor_stderr
\* the stderr lines logged so far
ErrLinesRead == Cardinality({i \in 1..Len(log) : log[i].lvl = "SERVER ERROR"})

\* readline() on stderr returns a non-empty line: it is logged as an error
monitor_stderr_line ==
    /\ pcErr = "read"
    /\ proc = "running"
    /\ ErrLinesRead < MaxErrLines
    /\ log' = Append(log, LogRec("SERVER ERROR", <<Word("stderr")>>))
    /\ UNCHANGED <<homes, warps, pending_homes, pending_warps, tpa_requests,
                   homes_file, warps_file, stdin, now, proc, pcMain, pcOut,
                   line, todo, pcErr, pcSweep, wakeAt, expired, notice>>

\* stderr is at end-of-file: the while loop ends
monitor_stderr_eof ==
    /\ pcErr = "read"
    /\ proc = "exited"
    /\ pcErr' = "ended"
    /\ UNCHANGED <<homes, warps, pending_homes, pending_warps, tpa_requests,
                   homes_file, warps_file, stdin, log, now, proc, pcMain, pcOut,
                   line, todo, pcSweep, wakeAt, expired, notice>>

\* ------------------------------------------------------------ check_tpa_timeouts
RECURSIVE ExpiredTargets(_, _, _)
\* the list `expired`: the targets whose request is older than the timeout,
\* in the order of tpa_requests.items()
ExpiredTargets(d, i, current_time) ==
    IF i > Len(d) THEN <<>>
    ELSE (IF current_time - d[i][2][2] > TPA_TIMEOUT THEN <<d[i][1]>> ELSE <<>>)
         \o ExpiredTargets(d, i + 1, current_time)

\* one turn of `for target in expired` up to the drain of the first notice:
\* self.tpa_requests.pop(target), which raises KeyError when target is gone,
\* then the write of the requester's notice
sweep_pop(targets, broken) ==
    LET target == Head(targets)
    IN  IF ~DictHas(tpa_requests, target) \/ broken
        THEN /\ pcSweep' = "failed"
             /\ UNCHANGED <<tpa_requests, stdin, expired, notice>>
        ELSE LET requester == DictGet(tpa_requests, target)[1]
             IN  /\ tpa_requests' = DictPop(tpa_requests, target)
                 /\ stdin' = Append(stdin, <<"tellraw", requester,
                                             "Your TPA request has expired", target>>)
                 /\ notice' = <<requester, target>>
                 /\ expired' = Tail(targets)
                 /\ pcSweep' = "notify"

\* sleep(10) is over: the expired targets are collected and the first is popped
check_tpa_timeouts_wake ==
    /\ pcSweep = "sleep"
    /\ now >= wakeAt
    /\ LET targets == ExpiredTargets(tpa_requests, 1, now)
       IN  IF targets = <<>>
           THEN /\ wakeAt' = now + SWEEP_SLEEP
                /\ UNCHANGED <<tpa_requests, stdin, pcSweep, expired, notice>>
           ELSE /\ \E broken \in Broken : sweep_pop(targets, broken)
                /\ UNCHANGED wakeAt
    /\ UNCHANGED <<homes, warps, pending_homes, pending_warps, homes_file,
                   warps_file, log, now, proc, pcMain, pcOut, line, todo, pcErr>>

\* resumed from the drain of the requester's notice: the target's notice
check_tpa_timeouts_notify ==
    /\ pcSweep = "notify"
    /\ \E broken \in Broken :
         IF broken
         THEN /\ pcSweep' = "failed"
              /\ UNCHANGED stdin
         ELSE /\ pcSweep' = "next"
              /\ stdin' = Append(stdin, <<"tellraw", notice[2],
                                          "TPA request has expired from", notice[1]>>)
    /\ UNCHANGED <<homes, warps, pending_homes, pending_warps, tpa_requests,
                   homes_file, warps_file, log, now, proc, pcMain, pcOut, line,
                   todo, pcErr, wakeAt, expired, notice>>

\* resumed from the drain of the target's notice: the next expired target,
\* or back to sleep(10) when the list is exhausted
check_tpa_timeouts_next ==
    /\ pcSweep = "next"
    /\ IF expired = <<>>
       THEN /\ pcSweep' = "sleep"
            /\ wakeAt' = now + SWEEP_SLEEP
            /\ UNCHANGED <<tpa_requests, stdin, expired, notice>>
       ELSE /\ \E broken \in Broken : sweep_pop(expired, broken)
            /\ UNCHANGED wakeAt
    /\ UNCHANGED <<homes, warps, pending_homes, pending_warps, homes_file,
                   warps_file, log, now, proc, pcMain, pcOut, line, todo, pcErr>>

\* ------------------------------------------------------------ the process and stop
\* the server process exits (a crash, or its answer to "stop")
process_exit ==
    /\ proc = "running"
    /\ proc' = "exited"
    /\ UNCHANGED <<homes, warps, pending_homes, pending_warps, tpa_requests,
                   homes_file, warps_file, stdin, log, now, pcMain, pcOut, line,
                   todo, pcErr, pcSweep, wakeAt, expired, notice>>

\* task.cancel() on a task of self.tasks: a finished task stays as it is
Cancel(pc) == IF pc = "read" THEN "cancelled" ELSE pc

\* asyncio.run(main()) cancels the tasks still alive when main() is over
Finish(pc) == IF pc \in {"sleep", "notify", "next"} THEN "cancelled" ELSE pc

\* main() is interrupted while it awaits the Future and runs stop() up to
\* the drain of "stop": the tasks of self.tasks are cancelled, "stop" is written
stop ==
    /\ pcMain = "wait"
    /\ pcOut' = Cancel(pcOut)
    /\ pcErr' = Cancel(pcErr)
    /\ todo' = <<>>
    /\ \E broken \in Broken :
         IF broken
         THEN /\ pcMain' = "raised"
              /\ pcSweep' = Finish(pcSweep)
              /\ UNCHANGED stdin
         ELSE /\ pcMain' = "stopping"
              /\ stdin' = Append(stdin, <<"stop">>)
              /\ UNCHANGED pcSweep
    /\ UNCHANGED <<homes, warps, pending_homes, pending_warps, tpa_requests,
                   homes_file, warps_file, log, now, proc, line,
                   wakeAt, expired, notice>>

\* await self.process.wait() returns once the process has exited
stop_wait ==
    /\ pcMain = "stopping"
    /\ proc = "exited"
    /\ pcMain' = "done"
    /\ pcSweep' = Finish(pcSweep)
    /\ UNCHANGED <<homes, warps, pending_homes, pending_warps, tpa_requests,
                   homes_file, warps_file, stdin, log, now, proc, pcOut, line,
                   todo, pcErr, wakeAt, expired, notice>>

\* ------------------------------------------------------------ specifications
\* a chat line "<player> .command args"
Chat(player, command, args) ==
    <<From(player), Dot(command)>> \o [i \in 1..Len(args) |-> Word(args[i])]
\* the server's answer to "data get entity player Pos"
PosLine(player, x, y, z) == <<Word(player), EntityData(x, y, z)>>

\* The position tracks: sethome / setwarp and position responses of two
\* players.  No line stores a consent request, so the clock and the sweep,
\* which would find nothing, are left out, as are stderr and shutdown.
PosLines ==
    {Chat("Alice", "sethome", <<>>),
     Chat("Alice", "setwarp", <<"Town">>),
     Chat("Alice", "setwarp", <<"mine">>),
     Chat("Bob", "setwarp", <<"mine">>),
     PosLine("Alice", "1", "64", "-3"),
     PosLine("Alice", "-2.5", "70", "8"),
     PosLine("Bob", "1", "64", "-3")}

InitPos == InitWith({NoFile}, {NoFile})

NextPos ==
    \/ load_homes
    \/ load_warps
    \/ check_tpa_timeouts_begin
    \/ start
    \/ handle_output_line(PosLines)
    \/ handle_output_resume

SpecPos == InitPos /\ [][NextPos]_vars

\* The consent tracker: requests to two targets, accept and deny by one of
\* them, the clock and the sweep.  stderr and shutdown are left out.
TpaLines ==
    {Chat("Alice", "tpa", <<"Bob">>),
     Chat("Carol", "tpa", <<"Bob">>),
     Chat("Alice", "tpa", <<"Carol">>),
     Chat("Bob", "tpaccept", <<>>),
     Chat("Bob", "tpdeny", <<>>)}

InitTpa == InitWith({NoFile}, {NoFile})

NextTpa ==
    \/ load_homes
    \/ load_warps
    \/ check_tpa_timeouts_begin
    \/ start
    \/ Tick
    \/ handle_output_line(TpaLines)
    \/ handle_output_resume
    \/ check_tpa_timeouts_wake
    \/ check_tpa_timeouts_notify
    \/ check_tpa_timeouts_next

SpecTpa == InitTpa /\ [][NextTpa]_vars

\* The classifier and the dispatcher: a command, a genuine position
\* response, an unknown command, two commands whose handler raises, and a
\* chat line whose text contains the position-response template.  The warps
\* file may be unreadable, which leaves warps without "spawn".
ClsLines ==
    {Chat("Alice", "sethome", <<>>),
     PosLine("Alice", "1", "64", "-3"),
     Chat("Bob", "fly", <<>>),
     Chat("Bob", "spawn", <<>>),
     Chat("Bob", "sethome", <<"here">>),
     <<From("Bob"), Dot("help"), Word("Alice"), EntityData("9", "9", "9")>>}

InitCls == InitWith({NoFile}, {NoFile, BadFile})

NextCls ==
    \/ load_homes
    \/ load_warps
    \/ check_tpa_timeouts_begin
    \/ start
    \/ handle_output_line(ClsLines)
    \/ handle_output_resume

SpecCls == InitCls /\ [][NextCls]_vars

\* The record store: homes and warps files that are absent, hold rows (a
\* mixed-case warp name, a persisted spawn, a row that is not four columns
\* wide) or cannot be written; sethome / setwarp with their position
\* responses, and warp lookups in two spellings.
StoreLines ==
    {Chat("Alice", "sethome", <<>>),
     Chat("Alice", "setwarp", <<"Town">>),
     Chat("Alice", "setwarp", <<"Spawn">>),
     PosLine("Alice", "1", "64", "-3"),
     PosLine("Alice", "0", "64", "-3"),
     Chat("Bob", "warp", <<"TOWN">>),
     Chat("Bob", "warp", <<"town">>)}

HomesFiles ==
    {NoFile,
     File(<<Row("Bob", <<"1">>, <<"2">>, <<"3">>),
            [Row("Carol", <<"4">>, <<"5">>, <<>>) EXCEPT !.n = 3]>>),
     ReadOnlyFile(<<>>)}

WarpsFiles ==
    {NoFile,
     File(<<Row("Town", <<"7">>, <<"8">>, <<"9">>)>>),
     File(<<Row("Spawn", <<"5">>, <<"70">>, <<"5">>)>>),
     ReadOnlyFile(<<>>)}

InitStore == InitWith(HomesFiles, WarpsFiles)

NextStore ==
    \/ load_homes
    \/ load_warps
    \/ check_tpa_timeouts_begin
    \/ start
    \/ handle_output_line(StoreLines)
    \/ handle_output_resume

SpecStore == InitStore /\ [][NextStore]_vars

\* Random teleport: rtp from a player, with every pair of draws, and rtp
\* with an argument, which the handler does not accept.
RtpLines ==
    {Chat("Alice", "rtp", <<>>),
     Chat("Bob", "rtp", <<"far">>)}

InitRtp == InitWith({NoFile}, {NoFile})

NextRtp ==
    \/ load_homes
    \/ load_warps
    \/ check_tpa_timeouts_begin
    \/ start
    \/ handle_output_line(RtpLines)
    \/ handle_output_resume

SpecRtp == InitRtp /\ [][NextRtp]_vars

\* User-input errors: a command without its argument, a request to
\* oneself, a repeated request, an unknown warp, a home that is not set, an
\* unknown command; and two commands that succeed, for contrast.
CmdLines ==
    {Chat("Alice", "tpa", <<>>),
     Chat("Alice", "tpa", <<"Alice">>),
     Chat("Alice", "tpa", <<"Bob">>),
     Chat("Alice", "setwarp", <<>>),
     Chat("Alice", "warp", <<>>),
     Chat("Alice", "warp", <<"nowhere">>),
     Chat("Alice", "warp", <<"Spawn">>),
     Chat("Alice", "home", <<>>),
     Chat("Alice", "fly", <<>>)}

InitCmd == InitWith({NoFile}, {NoFile})

NextCmd ==
    \/ load_homes
    \/ load_warps
    \/ check_tpa_timeouts_begin
    \/ start
    \/ handle_output_line(CmdLines)
    \/ handle_output_resume

SpecCmd == InitCmd /\ [][NextCmd]_vars

\* The whole engine from start-up to shutdown: every task, the clock, the
\* exit of the server process and the interruption of main().
Lines ==
    {Chat("Alice", "tpa", <<"Bob">>)}

Init == InitWith({NoFile}, {NoFile})

Next ==
    \/ load_homes
    \/ load_warps
    \/ check_tpa_timeouts_begin
    \/ start
    \/ Tick
    \/ handle_output_line(Lines)
    \/ handle_output_resume
    \/ handle_output_eof
    \/ monitor_stderr_line
    \/ monitor_stderr_eof
    \/ check_tpa_timeouts_wake
    \/ check_tpa_timeouts_notify
    \/ check_tpa_timeouts_next
    \/ process_exit
    \/ stop
    \/ stop_wait

Spec == Init /\ [][Next]_vars

\* The asyncio loop runs every task that is ready; the server's output, the
\* clock, the exit of the process and the interruption of main() are the
\* environment's and are not forced.
FairSpec ==
    /\ Spec
    /\ WF_vars(load_homes)
    /\ WF_vars(load_warps)
    /\ WF_vars(check_tpa_timeouts_begin)
    /\ WF_vars(start)
    /\ WF_vars(handle_output_resume)
    /\ WF_vars(handle_output_eof)
    /\ WF_vars(monitor_stderr_eof)
    /\ WF_vars(check_tpa_timeouts_wake)
    /\ WF_vars(check_tpa_timeouts_notify)
    /\ WF_vars(check_tpa_timeouts_next)
    /\ WF_vars(stop_wait)

\* ------------------------------------------------------------ observing a step
Players == {"Alice", "Bob", "Carol"}

\* the step reads a stdout line and logs it
ReadsLine == Len(log') > Len(log) /\ log'[Len(log) + 1].lvl = "INFO"

\* the position-response branch is among the instructions ops
HasPosition(ops) == \E i \in 1..Len(ops) : ops[i].op = "position"

\* the step runs the position-response branch on line'
PositionRuns ==
    /\ pcOut = "read"
    /\ pcOut' = "read"
    /\ ReadsLine \/ HasPosition(todo)
    /\ ~HasPosition(todo')

\* the step runs the position-response branch on a response naming player
PositionRunsFor(player) ==
    /\ PositionRuns
    /\ DataIndex(line', 1) # 0
    /\ line'[DataIndex(line', 1)].v = player

\* the position "x y z" reported by the response in line ln
Reported(ln) ==
    LET d == ln[DataIndex(ln, 1) + 1] IN <<d.x, d.y, d.z>>

\* the stdout lines logged so far, in order
RECURSIVE LinesOf(_)
LinesOf(lg) ==
    IF lg = <<>> THEN <<>>
    ELSE (IF Head(lg).lvl = "INFO" THEN <<Head(lg).text>> ELSE <<>>) \o LinesOf(Tail(lg))

\* the last command written to stdin is cmd
LastWritten(cmd) == stdin # <<>> /\ stdin[Len(stdin)] = cmd

\* the step writes exactly the command cmd to stdin
Writes(cmd) == stdin' = Append(stdin, cmd)

\* the line ln is the chat command `command` of player with an argument
IsCommand(ln, player, command) ==
    LET i == ChatIndex(ln, 1)
    IN  i # 0 /\ ln[i].v = player /\ ln[i + 1].v = command

RECURSIVE LastSetwarp(_, _)
\* the lower-cased name of the last ".setwarp <name>" of player among lines,
\* "" when there is none
LastSetwarp(lines, player) ==
    IF lines = <<>> THEN ""
    ELSE LET ln == lines[Len(lines)]
             i == ChatIndex(ln, 1)
         IN  IF IsCommand(ln, player, "setwarp") /\ Len(ln) >= i + 2
             THEN Lower(SplitWords(SubSeq(ln, i + 2, Len(ln)))[1])
             ELSE LastSetwarp(SubSeq(lines, 1, Len(lines) - 1), player)

\* ------------------------------------------------------------ C1
\* C1: when a position response naming P is handled while P is in
\* pending_homes (P issued sethome and no response came since), homes[P]
\* becomes exactly the reported "x y z", P leaves pending_homes, the homes
\* file is rewritten with P's row, and P is sent the confirmation message.
C1_SethomeThenResponse ==
    [][\A P \in Players :
         (PositionRunsFor(P) /\ P \in pending_homes) =>
            LET pos == Reported(line')
            IN  /\ DictHas(homes', P)
                /\ DictGet(homes', P) = pos
                /\ P \notin pending_homes'
                /\ Writable(homes_file) =>
                     /\ homes_file'.st = "ok"
                     /\ \E i \in 1..Len(homes_file'.rows) :
                          homes_file'.rows[i] = Row(P, <<pos[1]>>, <<pos[2]>>, <<pos[3]>>)
                /\ Writes(<<"tellraw", P, "Home set at">> \o pos)]_vars

\* sethome of Alice followed by her position response has been handled
C1_Witness ==
    /\ LinesOf(log) = <<Chat("Alice", "sethome", <<>>), PosLine("Alice", "-2.5", "70", "8")>>
    /\ pcOut = "read"
    /\ todo = <<>>
    /\ DictHas(homes, "Alice")
    /\ DictGet(homes, "Alice") = <<"-2.5", "70", "8">>
    /\ "Alice" \notin pending_homes
    /\ homes_file = File(<<Row("Alice", <<"-2.5">>, <<"70">>, <<"8">>)>>)
    /\ LastWritten(<<"tellraw", "Alice", "Home set at", "-2.5", "70", "8">>)

\* ------------------------------------------------------------ C2
\* C2: a position response for P that resolves the warp track writes the
\* reported position under the name of P's latest setwarp and touches no
\* other warp; a response for P that does not resolve the warp track leaves
\* warps unchanged.  So after setwarp n1, setwarp n2 the record goes under
\* n2 and nothing is ever written under n1.
C2_SecondSetwarpNameWins ==
    [][\A P \in Players :
         PositionRunsFor(P) =>
            IF P \notin pending_homes /\ DictHas(pending_warps, P)
            THEN warps' = DictSet(warps, LastSetwarp(LinesOf(log), P), Reported(line'))
            ELSE warps' = warps]_vars

\* setwarp Town, setwarp mine, then the response: only "mine" is recorded
C2_Witness ==
    /\ LinesOf(log) = <<Chat("Alice", "setwarp", <<"Town">>),
                        Chat("Alice", "setwarp", <<"mine">>),
                        PosLine("Alice", "1", "64", "-3")>>
    /\ pcOut = "read"
    /\ todo = <<>>
    /\ DictHas(warps, "mine")
    /\ DictGet(warps, "mine") = <<"1", "64", "-3">>
    /\ ~DictHas(warps, "town")
    /\ ~DictHas(pending_warps, "Alice")

\* ------------------------------------------------------------ C6
\* C6 (as claimed): no player is at once in pending_homes and a key of
\* pending_warps.
C6_OnePurposePerPlayer ==
    \A P \in Players : ~(P \in pending_homes /\ DictHas(pending_warps, P))

\* C6 (amended): at most one pending entry per track and player.
\* pending_warps has one entry per key, each key is a player who issued
\* setwarp with a name, and each player in pending_homes issued sethome.
C6_OnePendingPerTrack ==
    /\ \A i, j \in 1..Len(pending_warps) :
         pending_warps[i][1] = pending_warps[j][1] => i = j
    /\ \A P \in DictKeys(pending_warps) : LastSetwarp(LinesOf(log), P) # ""
    /\ \A P \in pending_homes :
         \E i \in 1..Len(log) : log[i].lvl = "INFO" /\ IsCommand(log[i].text, P, "sethome")

\* Alice is pending in both tracks after sethome and setwarp
C6_Witness ==
    /\ "Alice" \in pending_homes
    /\ DictHas(pending_warps, "Alice")
    /\ LinesOf(log) = <<Chat("Alice", "sethome", <<>>), Chat("Alice", "setwarp", <<"mine">>)>>
    /\ todo = <<>>

\* the words after the command word of the chat line ln
ArgsOf(ln) == SplitWords(SubSeq(ln, ChatIndex(ln, 1) + 2, Len(ln)))

\* the line ln is ".tpa target" typed by player
IsTpa(ln, player, target) ==
    IsCommand(ln, player, "tpa") /\ ArgsOf(ln) # <<>> /\ ArgsOf(ln)[1] = target

\* the step leaves the five CommandHandler containers as they are
TrackersUnchanged ==
    UNCHANGED <<homes, warps, pending_homes, pending_warps, tpa_requests>>

\* ------------------------------------------------------------ C3
\* C3: while tpa_requests[B] = (A, t), a line ".tpa B" from A leaves the
\* entry as it is and writes only the duplicate message; a line ".tpa B"
\* from another player C replaces the entry by (C, now); and ".tpaccept"
\* from B teleports the requester the entry holds at that time.
C3_DuplicateRejectedOtherReplaces ==
    [][ReadsLine =>
         \A A, B \in Players :
            (DictHas(tpa_requests, B) /\ DictGet(tpa_requests, B)[1] = A) =>
               /\ IsTpa(line', A, B) =>
                    /\ tpa_requests' = tpa_requests
                    /\ Writes(<<"tellraw", A, "You already have a pending request to", B>>)
               /\ \A C \in Players \ {A, B} :
                    IsTpa(line', C, B) =>
                       /\ DictHas(tpa_requests', B)
                       /\ DictGet(tpa_requests', B) = <<C, now>>
                       /\ DictKeys(tpa_requests') = DictKeys(tpa_requests)
               /\ (IsCommand(line', B, "tpaccept") /\ ArgsOf(line') = <<>>) =>
                    /\ Writes(<<"tp", A, B>>)
                    /\ ~DictHas(tpa_requests', B)]_vars

\* Alice asks Bob twice, Carol asks Bob, Bob accepts: Carol is teleported
C3_Witness ==
    /\ LinesOf(log) = <<Chat("Alice", "tpa", <<"Bob">>), Chat("Alice", "tpa", <<"Bob">>),
                        Chat("Carol", "tpa", <<"Bob">>), Chat("Bob", "tpaccept", <<>>)>>
    /\ todo = <<>>
    /\ \E i \in 1..Len(stdin) :
         stdin[i] = <<"tellraw", "Alice", "You already have a pending request to", "Bob">>
    /\ \E i \in 1..Len(stdin) : stdin[i] = <<"tp", "Carol", "Bob">>
    /\ \A i \in 1..Len(stdin) : stdin[i] # <<"tp", "Alice", "Bob">>
    /\ ~DictHas(tpa_requests, "Bob")

\* ------------------------------------------------------------ C4, C7
\* the step is a turn of the sweep's `for target in expired` loop
SweepTurn ==
    \/ pcSweep = "sleep" /\ pcSweep' # "sleep"
    \/ pcSweep = "next" /\ pcSweep' \notin {"next", "sleep"}

\* the target whose turn it is in a SweepTurn step
TurnTarget ==
    IF pcSweep = "sleep" THEN Head(ExpiredTargets(tpa_requests, 1, now)) ELSE Head(expired)

\* C4: every request the sweep has judged older than tpa_timeout is removed
\* by the sweep, its requester and then its target are written an expiry
\* notice; and a tpaccept or tpdeny from a player without an entry writes
\* only "No pending teleport requests!" and changes no tracker.
C4_SweepExpiresThenNoPending ==
    [][/\ SweepTurn =>
            /\ DictHas(tpa_requests, TurnTarget)
            /\ ~DictHas(tpa_requests', TurnTarget)
            /\ Writes(<<"tellraw", DictGet(tpa_requests, TurnTarget)[1],
                        "Your TPA request has expired", TurnTarget>>)
       /\ (pcSweep = "notify" /\ pcSweep' # "notify") =>
            Writes(<<"tellraw", notice[2], "TPA request has expired from", notice[1]>>)
       /\ ReadsLine =>
            \A T \in Players :
               (/\ IsCommand(line', T, "tpaccept") \/ IsCommand(line', T, "tpdeny")
                /\ ArgsOf(line') = <<>>
                /\ ~DictHas(tpa_requests, T)) =>
                  /\ Writes(<<"tellraw", T, "No pending teleport requests!">>)
                  /\ TrackersUnchanged]_vars

\* C7: the entry the sweep removes is the one it judged expired: it is still
\* stored when its turn comes (not resolved a second time) and its age
\* exceeds tpa_timeout.
C7_SweepRemovalAtomic ==
    [][SweepTurn =>
         /\ DictHas(tpa_requests, TurnTarget)
         /\ now - DictGet(tpa_requests, TurnTarget)[2] > TPA_TIMEOUT]_vars

\* ------------------------------------------------------------ C5
\* C5: a line that matches the chat-command pattern is handled as a command
\* only: when the position-response branch is reached for such a line it
\* resolves nothing (no home, warp or pending entry changes).
C5_CommandLineNeverResolves ==
    [][(PositionRuns /\ ChatIndex(line', 1) # 0) =>
          UNCHANGED <<homes, warps, pending_homes, pending_warps>>]_vars

\* ------------------------------------------------------------ C8
\* the handlers that take no argument besides the player
NoArgCommands ==
    {"tpaccept", "tpdeny", "sethome", "home", "warps", "spawn", "rtp", "help"}

\* the handler called for the chat line ln raises at once
HandlerRaises(ln) ==
    LET command == ln[ChatIndex(ln, 1) + 1].v
    IN  \/ command \in NoArgCommands /\ ArgsOf(ln) # <<>>
        \/ command = "spawn" /\ ArgsOf(ln) = <<>> /\ ~DictHas(warps, "spawn")

\* C8: a command without handler writes "Unknown command" to its player and
\* changes no tracker; a handler that raises (wrong number of arguments,
\* missing spawn record) is answered by an "Error:" message to its player,
\* changes no tracker, and never ends the handle_output task, which stays
\* in its reading loop.
C8_HandlerFailureContained ==
    [][/\ (ReadsLine /\ ChatIndex(line', 1) # 0) =>
            LET player == line'[ChatIndex(line', 1)].v
                command == line'[ChatIndex(line', 1) + 1].v
            IN  /\ command \notin NoArgCommands \cup {"tpa", "setwarp", "warp"} =>
                     /\ Writes(<<"tellraw", player, "Unknown command:", command>>)
                     /\ TrackersUnchanged
                /\ (/\ command \in NoArgCommands \cup {"tpa", "setwarp", "warp"}
                    /\ HandlerRaises(line')) =>
                     /\ Len(stdin') = Len(stdin) + 1
                     /\ SubSeq(stdin', 1, Len(stdin)) = stdin
                     /\ SubSeq(stdin'[Len(stdin')], 1, 3) = <<"tellraw", player, "Error:">>
                     /\ TrackersUnchanged
       /\ pcOut = "read" => pcOut' = "read"]_vars

\* two raising handlers and an unknown command were answered, and the next
\* line was still read and handled
C8_Witness ==
    /\ warps = <<>>
    /\ LinesOf(log) = <<Chat("Bob", "spawn", <<>>), Chat("Bob", "sethome", <<"here">>),
                        Chat("Bob", "fly", <<>>), Chat("Alice", "sethome", <<>>)>>
    /\ \E i \in 1..Len(stdin) : stdin[i] = <<"tellraw", "Bob", "Error:", "KeyError: 'spawn'">>
    /\ \E i \in 1..Len(stdin) :
         stdin[i] = <<"tellraw", "Bob", "Error:", "TypeError: takes 2 positional arguments">>
    /\ \E i \in 1..Len(stdin) : stdin[i] = <<"tellraw", "Bob", "Unknown command:", "fly">>
    /\ \E i \in 1..Len(log) : log[i] = LogRec("ERROR", <<Word("Command error")>>)
    /\ pcOut = "read"
    /\ todo = <<>>
    /\ pending_homes = {"Alice"}

\* ------------------------------------------------------------ C9
\* C9: once stop() has written "stop", the stdout loop, the stderr loop and
\* the sweep loop are cancelled (or already over), "stop" is the last
\* command written to the server, and stop() has returned only if the
\* process has exited.
C9_StopCancelsEveryLoop ==
    pcMain \in {"stopping", "done"} =>
       /\ pcOut \in {"cancelled", "ended", "failed"}
       /\ pcErr \in {"cancelled", "ended"}
       /\ pcSweep \in {"cancelled", "failed"}
       /\ LastWritten(<<"stop">>)
       /\ pcMain = "done" => proc = "exited"

\* ------------------------------------------------------------ C10
\* C10: when the server process has exited, main() eventually leaves its
\* wait and runs stop().
C10_ExitLeadsToShutdown ==
    (proc = "exited") ~> (pcMain \in {"stopping", "done", "raised"})

\* ------------------------------------------------------------ C11
\* C11: in every state in which a command can be handled (start-up loading
\* has run and the stdout task is in its loop), "spawn" is a key of warps,
\* whether the warps file was absent, present, or its load failed.
C11_SpawnAlwaysResolves ==
    pcOut = "read" => DictHas(warps, "spawn")

\* ------------------------------------------------------------ C12
\* C12: every key of warps is lowercase; a position response that resolves
\* P's setwarp stores the reported coordinates under the lower-cased name P
\* typed; and a warp command with the name n teleports to the record of
\* every key that is a case variant of n.
C12_WarpNamesCaseInsensitive ==
    [][/\ \A k \in DictKeys(warps') : Lower(k) = k
       /\ \A P \in Players :
            (PositionRunsFor(P) /\ P \notin pending_homes /\ DictHas(pending_warps, P)) =>
               LET n == LastSetwarp(LinesOf(log), P)
               IN  /\ DictHas(warps', n)
                   /\ DictGet(warps', n) = Reported(line')
       /\ \A P \in Players :
            (ReadsLine /\ IsCommand(line', P, "warp") /\ ArgsOf(line') # <<>>) =>
               \A k \in DictKeys(warps) :
                  Lower(k) = Lower(ArgsOf(line')[1]) =>
                     Writes(<<"tp", P>> \o DictGet(warps, k))]_vars

\* setwarp Town, the response, then warp TOWN and warp town both teleport
C12_Witness ==
    /\ LinesOf(log) = <<Chat("Alice", "setwarp", <<"Town">>), PosLine("Alice", "1", "64", "-3"),
                        Chat("Bob", "warp", <<"TOWN">>), Chat("Bob", "warp", <<"town">>)>>
    /\ warps_file.st = "ok"
    /\ todo = <<>>
    /\ DictHas(warps, "town")
    /\ ~DictHas(warps, "Town")
    /\ Cardinality({i \in 1..Len(stdin) : stdin[i] = <<"tp", "Bob", "1", "64", "-3">>}) = 2

\* ------------------------------------------------------------ C13
\* a dict as the set of its <<key, value>> pairs
AsMap(d) == {<<d[i][1], d[i][2]>> : i \in 1..Len(d)}

\* C13: whenever a commit saves the homes, loading the file just written
\* into an empty dict gives the in-memory key-to-position mapping; whenever
\* a commit saves the warps, the rows just written hold the in-memory
\* mapping except a "spawn" entry equal to the configured default (a
\* different "spawn" entry is written), and load_warps on that file gives
\* the in-memory mapping back.
C13_SaveLoadRoundTrip ==
    [][\A P \in Players :
         PositionRunsFor(P) =>
            /\ (P \in pending_homes /\ Writable(homes_file)) =>
                  AsMap(homes_after_load(<<>>, homes_file')) = AsMap(homes')
            /\ (P \notin pending_homes /\ DictHas(pending_warps, P) /\ Writable(warps_file)) =>
                  /\ AsMap(LoadRows(<<>>, warps_file'.rows, 1, TRUE))
                        = AsMap(warps') \ {<<"spawn", SPAWN_POINT>>}
                  /\ AsMap(warps_after_load(<<>>, warps_file')) = AsMap(warps')]_vars

\* a persisted spawn that differs from the default and a new warp were
\* saved together, and a home was saved
C13_Witness ==
    /\ LinesOf(log) = <<Chat("Alice", "setwarp", <<"Town">>), PosLine("Alice", "1", "64", "-3"),
                        Chat("Alice", "sethome", <<>>), PosLine("Alice", "0", "64", "-3")>>
    /\ todo = <<>>
    /\ warps = <<<<"spawn", <<"5", "70", "5">>>>, <<"town", <<"1", "64", "-3">>>>>>
    /\ warps_file = File(<<Row("spawn", <<"5">>, <<"70">>, <<"5">>),
                           Row("town", <<"1">>, <<"64">>, <<"-3">>)>>)
    /\ homes = <<<<"Bob", <<"1", "2", "3">>>>, <<"Alice", <<"0", "64", "-3">>>>>>
    /\ homes_file = File(<<Row("Bob", <<"1">>, <<"2">>, <<"3">>),
                           Row("Alice", <<"0">>, <<"64">>, <<"-3">>)>>)

\* ------------------------------------------------------------ C14
\* the integers compared with the coordinates of a scatter command: the
\* ends of [-radius, radius], their neighbours on both sides, and zero
ScatterCandidates ==
    {-RTP_RADIUS - 1, -RTP_RADIUS, -RTP_RADIUS + 1, 0,
     RTP_RADIUS - 1, RTP_RADIUS, RTP_RADIUS + 1}

\* -radius <= n <= radius
InRadius(n) == -RTP_RADIUS <= n /\ n <= RTP_RADIUS

\* the command is a scatter command
IsScatter(cmd) == cmd # <<>> /\ cmd[1] = "spreadplayers"

\* C14: the step that reads an rtp command of P writes exactly one command,
\* "spreadplayers x z 0 100 false P" with integers x and z in
\* [-radius, radius]; and no other step writes a scatter command.
C14_RtpWithinRadius ==
    [][/\ \A P \in Players :
            (ReadsLine /\ IsCommand(line', P, "rtp") /\ ArgsOf(line') = <<>>) =>
               \E x, z \in ScatterCandidates :
                  /\ InRadius(x)
                  /\ InRadius(z)
                  /\ Writes(<<"spreadplayers", ToString(x), ToString(z),
                              "0", "100", "false", P>>)
       /\ (Len(stdin') > Len(stdin) /\ IsScatter(stdin'[Len(stdin')])) =>
            /\ ReadsLine
            /\ Len(stdin') = Len(stdin) + 1
            /\ \E P \in Players : IsCommand(line', P, "rtp") /\ ArgsOf(line') = <<>>]_vars

\* one rtp was handled with the draws at the two ends of the range
C14_Witness ==
    /\ LinesOf(log) = <<Chat("Alice", "rtp", <<>>)>>
    /\ todo = <<>>
    /\ stdin = <<<<"spreadplayers", "-35000", "35000", "0", "100", "false", "Alice">>,
                 <<"tellraw", "Alice", "Random teleported!", "-35000", "35000">>>>

\* ------------------------------------------------------------ C15
\* the command is a consent teleport "tp R T"
IsConsentTp(cmd) == Len(cmd) = 3 /\ cmd[1] = "tp"

\* C15: a step writes "tp R T" only when it reads tpaccept from T while
\* tpa_requests[T] holds requester R, and that step removes the entry and
\* writes nothing else; tpaccept from a player with an entry always does
\* so; tpdeny from a player with an entry and a turn of the sweep remove
\* the entry and write a message, never a teleport; tpaccept and tpdeny
\* from a player without an entry write only the "No pending" message and
\* change no tracker.
C15_TeleportOnlyByAccept ==
    [][/\ (Len(stdin') > Len(stdin) /\ IsConsentTp(stdin'[Len(stdin')])) =>
            LET R == stdin'[Len(stdin')][2]
                T == stdin'[Len(stdin')][3]
            IN  /\ ReadsLine
                /\ IsCommand(line', T, "tpaccept")
                /\ Len(stdin') = Len(stdin) + 1
                /\ DictHas(tpa_requests, T)
                /\ DictGet(tpa_requests, T)[1] = R
                /\ tpa_requests' = DictPop(tpa_requests, T)
       /\ \A T \in Players :
            (ReadsLine /\ ArgsOf(line') = <<>> /\ DictHas(tpa_requests, T)) =>
               /\ IsCommand(line', T, "tpaccept") =>
                    /\ Writes(<<"tp", DictGet(tpa_requests, T)[1], T>>)
                    /\ ~DictHas(tpa_requests', T)
               /\ IsCommand(line', T, "tpdeny") =>
                    /\ Writes(<<"tellraw", T, "Denied teleport request of",
                                DictGet(tpa_requests, T)[1]>>)
                    /\ tpa_requests' = DictPop(tpa_requests, T)
       /\ \A T \in Players :
            (/\ ReadsLine
             /\ IsCommand(line', T, "tpaccept") \/ IsCommand(line', T, "tpdeny")
             /\ ArgsOf(line') = <<>>
             /\ ~DictHas(tpa_requests, T)) =>
               /\ Writes(<<"tellraw", T, "No pending teleport requests!">>)
               /\ UNCHANGED <<homes, warps, pending_homes, pending_warps, tpa_requests,
                              homes_file, warps_file>>
       /\ (SweepTurn /\ pcSweep' = "notify") =>
            /\ tpa_requests' = DictPop(tpa_requests, TurnTarget)
            /\ Len(stdin') = Len(stdin) + 1
            /\ stdin'[Len(stdin')][1] = "tellraw"]_vars

\* one request accepted, the next one denied, then accept without an entry:
\* exactly one teleport was written
C15_Witness ==
    /\ LinesOf(log) = <<Chat("Alice", "tpa", <<"Bob">>), Chat("Bob", "tpaccept", <<>>),
                        Chat("Carol", "tpa", <<"Bob">>), Chat("Bob", "tpdeny", <<>>)>>
    /\ todo = <<>>
    /\ tpa_requests = <<>>
    /\ Cardinality({i \in 1..Len(stdin) : IsConsentTp(stdin[i])}) = 1
    /\ \E i \in 1..Len(stdin) : stdin[i] = <<"tp", "Alice", "Bob">>
    /\ \E i \in 1..Len(stdin) :
         stdin[i] = <<"tellraw", "Bob", "Denied teleport request of", "Carol">>

\* ------------------------------------------------------------ C16
\* C16: a position response naming P resolves one track of P at most.  With
\* P in pending_homes the home is committed and pending_warps is left as it
\* is; otherwise, with P a key of pending_warps, the warp is committed under
\* the pending name; with P pending in neither, no home, warp, pending
\* entry or file changes and nothing is written.  The pending state of
\* every other player is unchanged in all cases.
C16_ResponseResolvesOneTrack ==
    [][\A P \in Players :
         PositionRunsFor(P) =>
            /\ pending_homes' \ {P} = pending_homes \ {P}
            /\ \A Q \in Players \ {P} :
                  /\ DictHas(pending_warps', Q) <=> DictHas(pending_warps, Q)
                  /\ DictHas(pending_warps, Q) =>
                        DictGet(pending_warps', Q) = DictGet(pending_warps, Q)
            /\ IF P \in pending_homes
               THEN /\ homes' = DictSet(homes, P, Reported(line'))
                    /\ P \notin pending_homes'
                    /\ UNCHANGED <<warps, pending_warps, warps_file>>
                    /\ Writes(<<"tellraw", P, "Home set at">> \o Reported(line'))
               ELSE IF DictHas(pending_warps, P)
               THEN /\ warps' = DictSet(warps, DictGet(pending_warps, P), Reported(line'))
                    /\ pending_warps' = DictPop(pending_warps, P)
                    /\ UNCHANGED <<homes, pending_homes, homes_file>>
                    /\ Writes(<<"tellraw", P, "Warp set at", DictGet(pending_warps, P)>>
                                \o Reported(line'))
               ELSE UNCHANGED <<homes, warps, pending_homes, pending_warps,
                                homes_file, warps_file, stdin>>]_vars

\* Alice pending in both tracks: her first response set the home and left
\* the warp armed, her second response set the warp
C16_Witness ==
    /\ LinesOf(log) = <<Chat("Alice", "sethome", <<>>), Chat("Alice", "setwarp", <<"mine">>),
                        PosLine("Alice", "1", "64", "-3"), PosLine("Alice", "-2.5", "70", "8")>>
    /\ todo = <<>>
    /\ DictGet(homes, "Alice") = <<"1", "64", "-3">>
    /\ DictHas(warps, "mine")
    /\ DictGet(warps, "mine") = <<"-2.5", "70", "8">>
    /\ pending_homes = {}
    /\ pending_warps = <<>>

\* ------------------------------------------------------------ C17
\* the position query written for player
Query(player) == <<"data get entity", player, "Pos">>

\* the number of "Home set at" confirmations written to player
NumHomeSet(written, player) ==
    Cardinality({i \in 1..Len(written) :
                   /\ Len(written[i]) >= 3
                   /\ SubSeq(written[i], 1, 3) = <<"tellraw", player, "Home set at">>})

\* the number of position responses naming player among lines
NumResponses(lines, player) ==
    Cardinality({i \in 1..Len(lines) :
                   /\ DataIndex(lines[i], 1) # 0
                   /\ lines[i][DataIndex(lines[i], 1)].v = player})

\* the number of sethome commands of player among lines
NumSethome(lines, player) ==
    Cardinality({i \in 1..Len(lines) : IsCommand(lines[i], player, "sethome")})

\* C17: a stdout line is read only when the handling of the line before is
\* complete; in particular no line is read while the last command written
\* is a position query (its pending entry is armed after it); and the home
\* confirmations written to a player never outnumber the position
\* responses read for that player, nor the player's sethome commands.
C17_LinesHandledOneAtATime ==
    [][/\ ReadsLine => (pcOut = "read" /\ todo = <<>>)
       /\ \A P \in Players :
            /\ ReadsLine => ~LastWritten(Query(P))
            /\ NumHomeSet(stdin', P) <= NumResponses(LinesOf(log'), P)
            /\ NumHomeSet(stdin', P) <= NumSethome(LinesOf(log'), P)]_vars

\* sethome was handled to its end before the response was read; the second
\* response confirmed nothing
C17_Witness ==
    /\ LinesOf(log) = <<Chat("Alice", "sethome", <<>>), PosLine("Alice", "1", "64", "-3"),
                        PosLine("Alice", "1", "64", "-3")>>
    /\ todo = <<>>
    /\ stdin = <<Query("Alice"),
                 <<"tellraw", "Alice", "Scanning your position...">>,
                 <<"tellraw", "Alice", "Home set at", "1", "64", "-3">>>>
    /\ pending_homes = {}

\* ------------------------------------------------------------ C18
\* the line ln is a position response naming player and nothing else
IsResponseFor(ln, player) ==
    /\ ChatIndex(ln, 1) = 0
    /\ DataIndex(ln, 1) # 0
    /\ ln[DataIndex(ln, 1)].v = player

\* the last record of lg is the error record with this text
LastLogged(lg, text) == lg # <<>> /\ lg[Len(lg)] = LogRec("ERROR", <<Word(text)>>)

\* C18: when a position response is committed while the file of its track
\* cannot be written, the in-memory record is still updated, the pending
\* entry is still cleared, the error is logged, the file is left as it
\* was, the confirmation is still written to the player, and the stdout
\* task stays in its reading loop.
C18_SaveFailureContained ==
    [][/\ \A P \in Players :
            (ReadsLine /\ IsResponseFor(line', P)) =>
               /\ (P \in pending_homes /\ ~Writable(homes_file)) =>
                     /\ homes' = DictSet(homes, P, Reported(line'))
                     /\ P \notin pending_homes'
                     /\ homes_file' = homes_file
                     /\ LastLogged(log', "Error saving homes")
                     /\ Writes(<<"tellraw", P, "Home set at">> \o Reported(line'))
               /\ (P \notin pending_homes /\ DictHas(pending_warps, P)
                                           /\ ~Writable(warps_file)) =>
                     /\ warps' = DictSet(warps, DictGet(pending_warps, P), Reported(line'))
                     /\ ~DictHas(pending_warps', P)
                     /\ warps_file' = warps_file
                     /\ LastLogged(log', "Error saving warps")
                     /\ Writes(<<"tellraw", P, "Warp set at", DictGet(pending_warps, P)>>
                                 \o Reported(line'))
       /\ pcOut = "read" => pcOut' = "read"]_vars

\* the save of Alice's home failed, she was confirmed her home all the
\* same, and the next line was read and answered
C18_Witness ==
    /\ homes_file = ReadOnlyFile(<<>>)
    /\ warps_file = NoFile
    /\ LinesOf(log) = <<Chat("Alice", "sethome", <<>>), PosLine("Alice", "1", "64", "-3"),
                        Chat("Bob", "warp", <<"TOWN">>)>>
    /\ \E i \in 1..Len(log) : log[i] = LogRec("ERROR", <<Word("Error saving homes")>>)
    /\ homes = <<<<"Alice", <<"1", "64", "-3">>>>>>
    /\ pending_homes = {}
    /\ \E i \in 1..Len(stdin) : stdin[i] = <<"tellraw", "Alice", "Home set at", "1", "64", "-3">>
    /\ LastWritten(<<"tellraw", "Bob", "Warp not found!", "town">>)
    /\ pcOut = "read"
    /\ todo = <<>>

\* ------------------------------------------------------------ C19
\* C19: while the engine runs, the sweep task never ends with an exception:
\* under every interleaving with tpa / tpaccept / tpdeny it is sleeping or
\* in a turn of its loop.
C19_SweepKeepsRunning ==
    (proc = "running" /\ pcMain = "wait") => pcSweep \in {"sleep", "notify", "next"}

\* ------------------------------------------------------------ C20
\* the chat line ln of player is a user-input error in the current state
UserError(ln, player) ==
    LET command == ln[ChatIndex(ln, 1) + 1].v
        args == ArgsOf(ln)
    IN  \/ command = "tpa" /\ args = <<>>
        \/ command = "tpa" /\ args # <<>> /\ args[1] = player
        \/ /\ command = "tpa"
           /\ args # <<>>
           /\ DictHas(tpa_requests, args[1])
           /\ DictGet(tpa_requests, args[1])[1] = player
        \/ command \in {"setwarp", "warp"} /\ args = <<>>
        \/ command = "warp" /\ args # <<>> /\ ~DictHas(warps, Lower(args[1]))
        \/ command = "home" /\ args = <<>> /\ ~DictHas(homes, player)
        \/ command \notin NoArgCommands \cup {"tpa", "setwarp", "warp"}

\* C20: the step that reads a user-input error of P changes no tracker and
\* no file, logs no error, writes exactly one command, a tellraw to P, and
\* leaves nothing of the handler to run; what is left for a line without
\* entity data changes nothing and writes nothing; and no entry of
\* tpa_requests has its target as requester.
C20_UserErrorsChangeNothing ==
    [][/\ \A P \in Players :
            (ReadsLine /\ IsCommand(line', P, line'[ChatIndex(line', 1) + 1].v)
                       /\ UserError(line', P)) =>
               /\ TrackersUnchanged
               /\ UNCHANGED <<homes_file, warps_file>>
               /\ log' = Append(log, LogRec("INFO", line'))
               /\ Len(stdin') = Len(stdin) + 1
               /\ SubSeq(stdin', 1, Len(stdin)) = stdin
               /\ SubSeq(stdin'[Len(stdin')], 1, 2) = <<"tellraw", P>>
               /\ todo' = <<Op("position", <<>>)>>
       /\ (todo = <<Op("position", <<>>)>> /\ todo' = <<>> /\ DataIndex(line, 1) = 0) =>
            /\ TrackersUnchanged
            /\ UNCHANGED <<homes_file, warps_file, stdin, log>>
       /\ \A i \in 1..Len(tpa_requests') :
            tpa_requests'[i][1] # tpa_requests'[i][2][1]]_vars

\* a request, its repetition, a request to oneself and an unknown warp: one
\* entry is stored and the three errors were answered
C20_Witness ==
    /\ LinesOf(log) = <<Chat("Alice", "tpa", <<"Bob">>), Chat("Alice", "tpa", <<"Bob">>),
                        Chat("Alice", "tpa", <<"Alice">>), Chat("Alice", "warp", <<"nowhere">>)>>
    /\ todo = <<>>
    /\ tpa_requests = <<<<"Bob", <<"Alice", 0>>>>>>
    /\ Len(stdin) = 5
    /\ stdin[3] = <<"tellraw", "Alice", "You already have a pending request to", "Bob">>
    /\ stdin[4] = <<"tellraw", "Alice", "You cannot teleport to yourself!">>
    /\ stdin[5] = <<"tellraw", "Alice", "Warp not found!", "nowhere">>
    /\ \A i \in 1..Len(log) : log[i].lvl = "INFO"

====
